---- MODULE Spec2Model ----
(***************************************************************************)
(* Position lifecycle and order execution of the trading bot:              *)
(* BinanceTradingBot.processNewPrice (orchestrator), RiskManager,          *)
(* TradeExecutor and StateManager, together with the exchange and the      *)
(* database they talk to.                                                  *)
(*                                                                         *)
(* Units.  Prices are whole USDT.  Base-asset quantities are integers in   *)
(* units of 1/QtyScale (10^-6) of the base asset, quote amounts and        *)
(* profits are integers in units of 1/QtyScale USDT, and percentages are   *)
(* basis points (1/10000).                                                 *)
(*                                                                         *)
(* Atomicity.  JavaScript runs a callback to completion; an async          *)
(* function gives control away only where it awaits real I/O (the HTTP     *)
(* order request, the database writes).  WebSocketManager.onmessage calls  *)
(* processNewPrice without awaiting it, so a new price event can start     *)
(* while an earlier one is suspended at such an await.  Every action below *)
(* is one run-to-completion segment of one processNewPrice execution.      *)
(***************************************************************************)
EXTENDS Integers, Sequences, FiniteSets, TLC

\* ---------------------------------------------------------------- bounds
MaxHandlers == 2
MaxOrders == 2
MaxDbFailures == 1
MaxDays == 2
MaxHistory == 5
MaxTicks == 5
MaxSaves == 3
MaxEvents == 3

\* Closing prices the feed can deliver.
Prices == {99, 100, 101}

\* ------------------------------------------------- configuration values
investmentAmount == 10
StopLossBp == 100
TakeProfitBp == 200
TrailingStopBp == 50
quantityPrecision == 5
maxDailyTrades == 5
MaxDailyLossBp == 500
baseCapitalForDailyLoss == 1000

\* Quantity units per whole unit of the base asset: one decimal digit finer
\* than the quantity precision.
QtyScale == 10 ^ (quantityPrecision + 1)

\* One unit of the last displayed quantity digit, in quantity units.
PrecisionUnit == QtyScale \div (10 ^ quantityPrecision)

\* ------------------------------------------------------------ environment
\* Exchange filters of the traded symbol, as returned by getExchangeInfo:
\* LOT_SIZE.stepSize, and MIN_NOTIONAL.minNotional when that filter exists.
SymbolInfos ==
    { [stepSize |-> 10, hasMinNotional |-> TRUE, minNotional |-> 10],
      [stepSize |-> 10, hasMinNotional |-> FALSE, minNotional |-> 0] }

\* Free balances of the account at the exchange when the model starts.
InitBaseChoices == {0, 40000}
InitQuote == 25 * QtyScale

Handlers == 1..MaxHandlers
Signals == {"BUY", "SELL", "NONE"}

VARIABLES
    alive,            \* the node process is running
    isInitialized,    \* BinanceTradingBot.isInitialized
    position,         \* BinanceTradingBot.position: [holding, amount]
    entryPrice,       \* BinanceTradingBot.entryPrice
    highestPrice,     \* BinanceTradingBot.highestPrice
    lastPrice,        \* BinanceTradingBot.lastPrice
    dailyStats,       \* BinanceTradingBot.dailyStats: [trades, profit]
    accountBalances,  \* BinanceTradingBot.accountBalances: free [base, quote]
    symbolInfo,       \* BinanceTradingBot.symbolInfo
    orderInProgress,  \* TradeExecutor.orderInProgress
    pc,               \* where each processNewPrice execution is suspended
    loc,              \* its local variables
    sent,             \* number of order requests sent to the exchange
    fills,            \* sides of the orders the exchange executed, in order
    exBase,           \* free base balance held at the exchange
    exInfo,           \* the symbol's filters at the exchange
    botState,         \* the bot_state row of the database
    trades,           \* the trades table of the database
    dbFailures,       \* number of database writes that have failed
    lastCall,         \* outcome of the latest TradeExecutor call
    fnCall,           \* a RiskManager / TradeExecutor function under evaluation
    signalProcessor,  \* SignalProcessor: [prices, shortMA, longMA, ...]
    stateManager,     \* StateManager.loadState against the clock and the row
    legacyBot,        \* the legacy bot (bot.js): its order requests
    processEnv        \* process.env: [SIMULATE_TRADING]

vars == << alive, isInitialized, position, entryPrice, highestPrice, lastPrice,
           dailyStats, accountBalances, symbolInfo, orderInProgress, pc, loc,
           sent, fills, exBase, exInfo, botState, trades, dbFailures,
           lastCall, fnCall, signalProcessor, stateManager, legacyBot,
           processEnv >>

\* The variables of the trading engine, and those of the components that
\* are exercised on their own.
engineVars == << alive, isInitialized, position, entryPrice, highestPrice, lastPrice,
                 dailyStats, accountBalances, symbolInfo, orderInProgress, pc, loc,
                 sent, fills, exBase, exInfo, botState, trades, dbFailures,
                 lastCall, processEnv >>
componentVars == << fnCall, signalProcessor, stateManager, legacyBot >>

botVars == << position, entryPrice, highestPrice, dailyStats >>
exVars == << sent, fills, exBase >>
dbVars == << botState, trades, dbFailures >>
envVars == << alive, isInitialized, accountBalances, symbolInfo, exInfo >>

NoState == [exists |-> FALSE]
\* The environment of a process started without SIMULATE_TRADING.
DefaultEnv == [SIMULATE_TRADING |-> FALSE]
\* A component that is not exercised in the specification at hand.
NotExercised == [exercised |-> FALSE]
NoCall == [fn |-> "none", result |-> "none", reason |-> "NONE", qty |-> 0, price |-> 0,
           executed |-> FALSE, handed |-> FALSE]
\* The Number NaN, which totalQuoteAmount / executedQty yields for 0 / 0: a
\* value that is no price.  Every comparison with NaN is false.
NaN == -1
NoLoc == [buySignal |-> FALSE, order |-> 0, quantity |-> 0, executedQty |-> 0, avgPrice |-> 0,
          handed |-> FALSE]

\* ------------------------------------------------------ BinanceTradingBot
\* The fields the constructor sets (BinanceTradingBot.constructor).
DefaultPosition == [holding |-> FALSE, amount |-> 0]
DefaultDailyStats == [trades |-> 0, profit |-> 0]

\* BinanceTradingBot.symbolInfo = {} and accountBalances = {} before init().
NoSymbolInfo == [stepSize |-> 0, hasMinNotional |-> FALSE, minNotional |-> 0]
NoBalances == [base |-> 0, quote |-> 0]

\* ------------------------------------------------------------ RiskManager
\* checkExitConditions with pnl < -stopLossPercentage in place of <=.
checkExitConditionsOfStrictStopLoss(cfg, pos, entry, highest, price) ==
    IF ~pos.holding THEN "NONE"
    ELSE IF entry = NaN \/ highest = NaN THEN "NONE"
    ELSE IF (price - entry) * 10000 < -(cfg.stopLossBp * entry) THEN "STOP_LOSS"
    ELSE IF (price - entry) * 10000 >= cfg.takeProfitBp * entry THEN "TAKE_PROFIT"
    ELSE IF /\ price * 10000 <= highest * (10000 - cfg.trailingStopBp)
            /\ highest > entry
         THEN "TRAILING_STOP"
    ELSE "NONE"

\* checkExitConditions without the highestPrice > entryPrice test.
checkExitConditionsOfAnyHighest(cfg, pos, entry, highest, price) ==
    IF ~pos.holding THEN "NONE"
    ELSE IF entry = NaN \/ highest = NaN THEN "NONE"
    ELSE IF (price - entry) * 10000 <= -(cfg.stopLossBp * entry) THEN "STOP_LOSS"
    ELSE IF (price - entry) * 10000 >= cfg.takeProfitBp * entry THEN "TAKE_PROFIT"
    ELSE IF price * 10000 <= highest * (10000 - cfg.trailingStopBp)
         THEN "TRAILING_STOP"
    ELSE "NONE"

\* checkExitConditions with the trailing stop tested before the other two.
checkExitConditionsOfTrailingFirst(cfg, pos, entry, highest, price) ==
    IF ~pos.holding THEN "NONE"
    ELSE IF entry = NaN \/ highest = NaN THEN "NONE"
    ELSE IF /\ price * 10000 <= highest * (10000 - cfg.trailingStopBp)
            /\ highest > entry
         THEN "TRAILING_STOP"
    ELSE IF (price - entry) * 10000 <= -(cfg.stopLossBp * entry) THEN "STOP_LOSS"
    ELSE IF (price - entry) * 10000 >= cfg.takeProfitBp * entry THEN "TAKE_PROFIT"
    ELSE "NONE"

\* checkExitConditions returning an exit for a held position when none of
\* the three conditions holds, as an engine that sold on a signal would.
checkExitConditionsOfOrSignal(cfg, pos, entry, highest, price) ==
    IF ~pos.holding THEN "NONE"
    ELSE IF entry = NaN \/ highest = NaN THEN "NONE"
    ELSE IF (price - entry) * 10000 <= -(cfg.stopLossBp * entry) THEN "STOP_LOSS"
    ELSE IF (price - entry) * 10000 >= cfg.takeProfitBp * entry THEN "TAKE_PROFIT"
    ELSE IF /\ price * 10000 <= highest * (10000 - cfg.trailingStopBp)
            /\ highest > entry
         THEN "TRAILING_STOP"
    ELSE "SIGNAL"

\* RiskManager.checkExitConditions of a RiskManager whose config.strategy
\* holds cfg = [stopLossBp, takeProfitBp, trailingStopBp], the percentages as
\* they were read from the environment (any sign): STOP_LOSS, TAKE_PROFIT,
\* TRAILING_STOP or NONE (null).  price and entry are compared as the code
\* compares (price - entry) / entry with the percentages, multiplied out by
\* entry; the prices may be in any one unit.
checkExitConditionsOf(cfg, pos, entry, highest, price) ==
    IF ~pos.holding THEN "NONE"
    ELSE IF entry = NaN \/ highest = NaN THEN "NONE"
    ELSE IF (price - entry) * 10000 <= -(cfg.stopLossBp * entry) THEN "STOP_LOSS"
    ELSE IF (price - entry) * 10000 >= cfg.takeProfitBp * entry THEN "TAKE_PROFIT"
    ELSE IF /\ price * 10000 <= highest * (10000 - cfg.trailingStopBp)
            /\ highest > entry
         THEN "TRAILING_STOP"
    ELSE "NONE"

\* The day's loss at which checkDailyRiskLimits stops entries:
\* baseCapitalForDailyLoss * maxDailyLossPercentage, in 1/QtyScale USDT.
DailyLossCap == baseCapitalForDailyLoss * MaxDailyLossBp * (QtyScale \div 10000)

\* checkDailyRiskLimits with the loss compared by > in place of >=.
checkDailyRiskLimitsLossStrict(ds) ==
    IF /\ ds.profit < 0
       /\ -ds.profit > DailyLossCap
    THEN FALSE
    ELSE IF ds.trades >= maxDailyTrades THEN FALSE
    ELSE TRUE

\* RiskManager.checkDailyRiskLimits(...).canTrade
checkDailyRiskLimits(ds) ==
    IF /\ ds.profit < 0
       /\ -ds.profit >= DailyLossCap
    THEN FALSE
    ELSE IF ds.trades >= maxDailyTrades THEN FALSE
    ELSE TRUE

\* The exit check made only while the daily limits allow trading.
checkExitConditionsWhenAllowed(pos, entry, highest, price) ==
    IF ~checkDailyRiskLimits(dailyStats) THEN "NONE"
    ELSE checkExitConditionsOf([stopLossBp |-> StopLossBp, takeProfitBp |-> TakeProfitBp,
                                trailingStopBp |-> TrailingStopBp],
                               pos, entry, highest, price)

\* RiskManager.checkExitConditions of the bot's RiskManager, whose
\* percentages are the configuration values above.
checkExitConditions(pos, entry, highest, price) ==
    checkExitConditionsOf([stopLossBp |-> StopLossBp, takeProfitBp |-> TakeProfitBp,
                           trailingStopBp |-> TrailingStopBp],
                          pos, entry, highest, price)

\* -------------------------------------------------------- SignalProcessor
\* Moving averages are exact fractions [num, den] with den > 0; the code
\* holds them as doubles.
Fraction(n, d) == [num |-> n, den |-> d]
FractionLess(a, b) == a.num * b.den < b.num * a.den
FractionLeq(a, b) == a.num * b.den <= b.num * a.den

RECURSIVE SumSeq(_)
SumSeq(data) == IF data = << >> THEN 0 ELSE Head(data) + SumSeq(Tail(data))

\* The last n elements of data: data.slice(-n).
LastN(data, n) ==
    IF Len(data) <= n THEN data ELSE SubSeq(data, Len(data) - n + 1, Len(data))

\* The loop of calculateEMA from index i (1-based) on:
\* ema = data[i] * k + ema * (1 - k) with k = 2 / (period + 1).
RECURSIVE EmaLoop(_, _, _, _)
EmaLoop(data, period, i, ema) ==
    IF i > Len(data) THEN ema
    ELSE EmaLoop(data, period, i + 1,
                 Fraction(2 * data[i] * ema.den + (period - 1) * ema.num,
                          ema.den * (period + 1)))

\* SignalProcessor.calculateEMA(data, period): 0 with too few data; otherwise
\* the average of the last `period` values, run through the loop over
\* data[1], data[2], ... (JavaScript indices).
calculateEMA(data, period) ==
    IF Len(data) < period THEN Fraction(0, 1)
    ELSE EmaLoop(data, period, 2, Fraction(SumSeq(LastN(data, period)), period))

\* SignalProcessor.calculateMovingAverages on the processor state sp.
calculateMovingAverages(sp) ==
    IF Len(sp.prices) < sp.longMASize
    THEN [sp EXCEPT !.shortMA = << >>, !.longMA = << >>]
    ELSE LET short == Append(sp.shortMA, calculateEMA(sp.prices, sp.shortMASize))
             long == Append(sp.longMA, calculateEMA(sp.prices, sp.longMASize))
         IN [sp EXCEPT
               !.shortMA = IF Len(short) > sp.shortMASize * 2 THEN Tail(short) ELSE short,
               !.longMA = IF Len(long) > sp.longMASize * 2 THEN Tail(long) ELSE long]

\* checkSignal returning BUY whenever the short average is above the long
\* one, whatever the previous values were.
checkSignalOnLevel(sp) ==
    IF Len(sp.shortMA) < 2 \/ Len(sp.longMA) < 2 THEN "NONE"
    ELSE LET currentShortMA == sp.shortMA[Len(sp.shortMA)]
             previousShortMA == sp.shortMA[Len(sp.shortMA) - 1]
             currentLongMA == sp.longMA[Len(sp.longMA)]
             previousLongMA == sp.longMA[Len(sp.longMA) - 1]
         IN IF FractionLess(currentLongMA, currentShortMA)
               THEN "BUY"
            ELSE IF /\ FractionLeq(previousLongMA, previousShortMA)
                    /\ FractionLess(currentShortMA, currentLongMA)
               THEN "SELL"
            ELSE "NONE"

\* SignalProcessor.checkSignal on the processor state sp: BUY, SELL or NONE
\* (null).
checkSignal(sp) ==
    IF Len(sp.shortMA) < 2 \/ Len(sp.longMA) < 2 THEN "NONE"
    ELSE LET currentShortMA == sp.shortMA[Len(sp.shortMA)]
             previousShortMA == sp.shortMA[Len(sp.shortMA) - 1]
             currentLongMA == sp.longMA[Len(sp.longMA)]
             previousLongMA == sp.longMA[Len(sp.longMA) - 1]
         IN IF /\ FractionLeq(previousShortMA, previousLongMA)
               /\ FractionLess(currentLongMA, currentShortMA)
               THEN "BUY"
            ELSE IF /\ FractionLeq(previousLongMA, previousShortMA)
                    /\ FractionLess(currentShortMA, currentLongMA)
               THEN "SELL"
            ELSE "NONE"

\* processPrice computing averages from the first price on: the short one is
\* the latest price and the long one the mean of the prices so far.
processPriceWithoutWarmUp(sp, newPrice) ==
    LET pushed == Append(sp.prices, newPrice)
        kept == IF Len(pushed) > sp.longMASize * 2 THEN Tail(pushed) ELSE pushed
        short == Append(sp.shortMA, Fraction(newPrice, 1))
        long == Append(sp.longMA, Fraction(SumSeq(kept), Len(kept)))
        averaged == [sp EXCEPT
                       !.prices = kept,
                       !.shortMA = IF Len(short) > sp.shortMASize * 2 THEN Tail(short) ELSE short,
                       !.longMA = IF Len(long) > sp.longMASize * 2 THEN Tail(long) ELSE long]
    IN [averaged EXCEPT !.signal = checkSignal(averaged)]

\* processPrice without the shift() of the oldest price.
processPriceWithoutEviction(sp, newPrice) ==
    LET pushed == Append(sp.prices, newPrice)
        averaged == calculateMovingAverages([sp EXCEPT !.prices = pushed])
    IN [averaged EXCEPT !.signal = checkSignal(averaged)]

\* SignalProcessor.processPrice(newPrice) on the processor state sp; the
\* returned signal is the signal field of the result.
processPrice(sp, newPrice) ==
    LET pushed == Append(sp.prices, newPrice)
        kept == IF Len(pushed) > sp.longMASize * 2 THEN Tail(pushed) ELSE pushed
        averaged == calculateMovingAverages([sp EXCEPT !.prices = kept])
    IN [averaged EXCEPT !.signal = checkSignal(averaged)]

\* SignalProcessor.initializeData(historicalPrices) on the processor state sp.
initializeData(sp, historicalPrices) ==
    IF historicalPrices = << >> THEN sp
    ELSE LET larger == IF sp.shortMASize > sp.longMASize
                          THEN sp.shortMASize ELSE sp.longMASize
         IN calculateMovingAverages(
               [sp EXCEPT !.prices = LastN(historicalPrices, larger * 2)])

\* ---------------------------------------------------------- TradeExecutor
\* Number.prototype.toFixed(quantityPrecision) followed by parseFloat: the
\* nearest multiple of the last displayed digit.
toFixedQuantity(x) ==
    ((2 * x + PrecisionUnit) \div (2 * PrecisionUnit)) * PrecisionUnit

\* TradeExecutor.applyExchangeFilter('LOT_SIZE', num / den) under filters info.
applyExchangeFilter(info, num, den) ==
    IF info.stepSize = 0 THEN num \div den
    ELSE toFixedQuantity((num \div (den * info.stepSize)) * info.stepSize)

\* notional qty * price is below the symbol's MIN_NOTIONAL filter
BelowMinNotional(info, qty, price) ==
    info.hasMinNotional /\ qty * price < info.minNotional * QtyScale

\* executeBuyOrder with the orderInProgress test of lines 78-81 taken out: the
\* variant the single-flight property must tell apart from the code.
executeBuyOrderPreUnguarded(flag, invest, price, info, quoteFree) ==
    LET quantity == applyExchangeFilter(info, invest * QtyScale, price)
    IN IF BelowMinNotional(info, quantity, price)
          THEN [result |-> "minNotional", qty |-> quantity]
       ELSE IF invest * QtyScale > quoteFree
          THEN [result |-> "balance", qty |-> quantity]
       ELSE [result |-> "sent", qty |-> quantity]

\* executeBuyOrder with the MIN_NOTIONAL test of lines 94-99 taken out.
executeBuyOrderPreNoMinNotional(flag, invest, price, info, quoteFree) ==
    IF flag THEN [result |-> "busy", qty |-> 0]
    ELSE LET quantity == applyExchangeFilter(info, invest * QtyScale, price)
         IN IF invest * QtyScale > quoteFree
               THEN [result |-> "balance", qty |-> quantity]
            ELSE [result |-> "sent", qty |-> quantity]

\* TradeExecutor.executeBuyOrder up to the createOrder call: the outcome of
\* the validation and the quantity that would be ordered.
executeBuyOrderPre(flag, invest, price, info, quoteFree) ==
    IF flag THEN [result |-> "busy", qty |-> 0]
    ELSE LET quantity == applyExchangeFilter(info, invest * QtyScale, price)
         IN IF BelowMinNotional(info, quantity, price)
               THEN [result |-> "minNotional", qty |-> quantity]
            ELSE IF invest * QtyScale > quoteFree
               THEN [result |-> "balance", qty |-> quantity]
            ELSE [result |-> "sent", qty |-> quantity]

\* TradeExecutor.executeSellOrder up to the createOrder call.
executeSellOrderPre(flag, pos, price, info, baseFree) ==
    IF flag THEN [result |-> "busy", qty |-> 0]
    ELSE LET quantityToSell == applyExchangeFilter(info, pos.amount, 1)
         IN IF BelowMinNotional(info, quantityToSell, price)
               THEN [result |-> "minNotional", qty |-> quantityToSell]
            ELSE IF quantityToSell > baseFree
               THEN LET adjusted == applyExchangeFilter(info, baseFree, 1)
                    IN IF adjusted = 0
                          THEN [result |-> "zeroQty", qty |-> 0]
                          ELSE [result |-> "sent", qty |-> adjusted]
            ELSE [result |-> "sent", qty |-> quantityToSell]

FlagAfterRejectionKept(flag, result) ==
    IF result = "busy" THEN flag ELSE TRUE

\* The flag after a rejection, were the busy return inside the try block
\* whose finally clears it.
FlagAfterRejectionCleared(flag, result) ==
    FALSE

\* The in-flight flag after a call that did not reach createOrder: the busy
\* return leaves it alone, every other rejection clears it.
FlagAfterRejection(flag, result) ==
    IF result = "busy" THEN flag ELSE FALSE

\* The outcomes executeBuyOrder and executeSellOrder reach before any await.
PreResults == {"busy", "minNotional", "zeroQty", "balance", "sent"}

\* ----------------------------------------------------------- StateManager
\* The fields a StateManager object has (StateManager.constructor).
stateManagerFields ==
    {"config", "logger", "botId", "BotStateModel", "TradeModel", "botInstance"}

\* stateData of StateManager.saveState.
StateData(pos, entry, highest, last, ds) ==
    [exists |-> TRUE, holding |-> pos.holding, amount |-> pos.amount,
     entryPrice |-> entry, highestPrice |-> highest, lastPrice |-> last,
     dailyStats |-> ds]

\* What a TradeExecutor call did: the function, its outcome so far, the exit
\* reason or SIGNAL, the quantity and price of the request, whether the
\* exchange executed the order and whether a Trade record of it was handed
\* to StateManager.saveTrade.
Call(fn, result, reason, qty, price, executed, wasHanded) ==
    [fn |-> fn, result |-> result, reason |-> reason, qty |-> qty, price |-> price,
     executed |-> executed, handed |-> wasHanded]

\* Step 4 of processNewPrice without its position.holding test.
UpdateHighestAlways(pos, highest, last) ==
    IF highest # NaN /\ last > highest THEN last ELSE highest

\* Step 4 of processNewPrice assigning the last price to highestPrice
\* whether it is a new high or not.
UpdateHighestToLast(pos, highest, last) ==
    IF pos.holding /\ highest # NaN THEN last ELSE highest

\* Step 4 of processNewPrice: highestPrice follows the last price while a
\* position is held.
UpdateHighest(pos, highest, last) ==
    IF pos.holding /\ highest # NaN /\ last > highest THEN last ELSE highest

\* StateManager.saveState's upsert of stateData: the row is replaced, or the
\* write fails and the error is only logged.  Only loadState reads the row, so
\* the write is taken to happen when saveState is called.
Upsert(data) ==
    \/ /\ botState' = data
       /\ UNCHANGED << trades, dbFailures >>
    \/ /\ dbFailures < MaxDbFailures
       /\ dbFailures' = dbFailures + 1
       /\ UNCHANGED << botState, trades >>

\* saveTrade writing record t over a stored record of the same order id.
CreateOrReplace(t) ==
    \/ /\ trades' = {u \in trades : u.orderId # t.orderId} \cup {t}
       /\ UNCHANGED << botState, dbFailures >>
    \/ /\ dbFailures < MaxDbFailures
       /\ dbFailures' = dbFailures + 1
       /\ UNCHANGED << botState, trades >>

\* StateManager.saveTrade's TradeModel.create of record t: inserted, refused
\* because the order id is already in the table, or failed; the errors are
\* only logged.
Create(t) ==
    \/ /\ trades' = IF \E u \in trades : u.orderId = t.orderId
                        THEN trades ELSE trades \cup {t}
       /\ UNCHANGED << botState, dbFailures >>
    \/ /\ dbFailures < MaxDbFailures
       /\ dbFailures' = dbFailures + 1
       /\ UNCHANGED << botState, trades >>

\* loadState's day block with the profit !== 0 test taken out: the previous
\* day's profit is archived whatever its value.
loadStateDailyStatsArchiveAlways(ds, now) ==
    IF now # ds.startTime
    THEN [trades |-> 0, profit |-> 0, startTime |-> now,
          dailyProfits |-> Append(ds.dailyProfits,
                                  [date |-> ds.startTime, profit |-> ds.profit])]
    ELSE ds

\* StateManager.loadState, lines 132-149: the dailyStats the bot holds after
\* the stored dailyStats ds were loaded on calendar day now.  Timestamps are
\* calendar days (the code compares date, month and year).
loadStateDailyStats(ds, now) ==
    IF now # ds.startTime
    THEN [trades |-> 0, profit |-> 0, startTime |-> now,
          dailyProfits |-> IF ds.profit # 0
                              THEN Append(ds.dailyProfits,
                                          [date |-> ds.startTime, profit |-> ds.profit])
                              ELSE ds.dailyProfits]
    ELSE ds

\* ------------------------------------------------------------------ Init
\* The state after `new BinanceTradingBot()`, before init(), with no trade
\* in the database.
Constructed ==
    /\ alive = TRUE
    /\ isInitialized = FALSE
    /\ position = DefaultPosition
    /\ entryPrice = 0
    /\ highestPrice = 0
    /\ lastPrice = 0
    /\ dailyStats = DefaultDailyStats
    /\ accountBalances = NoBalances
    /\ symbolInfo = NoSymbolInfo
    /\ orderInProgress = FALSE
    /\ pc = [h \in Handlers |-> "idle"]
    /\ loc = [h \in Handlers |-> NoLoc]
    /\ sent = 0
    /\ fills = << >>
    /\ exBase \in InitBaseChoices
    /\ exInfo \in SymbolInfos
    /\ trades = {}
    /\ dbFailures = 0
    /\ lastCall = NoCall

\* The trading engine on its own, started on an empty database.
Init ==
    /\ Constructed
    /\ processEnv = DefaultEnv
    /\ botState = NoState
    /\ fnCall = NotExercised
    /\ signalProcessor = NotExercised
    /\ stateManager = NotExercised
    /\ legacyBot = NotExercised

\* Lines 67-83 of BinanceTradingBot.init(): StateManager.loadState (the saved
\* row, or the defaults saved as a first row), the symbol's filters, the
\* free balances.
InitLoads ==
    /\ IF botState.exists
          THEN /\ position' = [holding |-> botState.holding, amount |-> botState.amount]
               /\ entryPrice' = botState.entryPrice
               /\ highestPrice' = botState.highestPrice
               /\ lastPrice' = botState.lastPrice
               /\ dailyStats' = botState.dailyStats
               /\ UNCHANGED dbVars
          ELSE /\ UNCHANGED << position, entryPrice, highestPrice, lastPrice, dailyStats >>
               /\ Upsert(StateData(position, entryPrice, highestPrice, lastPrice, dailyStats))
    /\ symbolInfo' = exInfo
    /\ accountBalances' = [base |-> exBase, quote |-> InitQuote]

\* BinanceTradingBot.init() as one step, no price event arriving between
\* the WebSocket connection and isInitialized = true.
InitBot ==
    /\ alive /\ ~isInitialized
    /\ UNCHANGED << componentVars, processEnv >>
    /\ InitLoads
    /\ isInitialized' = TRUE
    /\ lastCall' = NoCall
    /\ UNCHANGED << alive, orderInProgress, pc, loc, exVars, exInfo >>

\* Lines 166-196 of processNewPrice for execution h, with buySignal the value
\* of signal === 'BUY' and this.lastPrice = last: the entry decision,
\* executeBuyOrder up to its first await, and the highestPrice update when no
\* order is awaited.
EntryStep(h, buySignal, last) ==
    LET d == executeBuyOrderPre(orderInProgress, investmentAmount, last,
                                symbolInfo, accountBalances.quote)
    IN IF ~position.holding /\ buySignal
       THEN IF ~checkDailyRiskLimits(dailyStats)
            THEN /\ highestPrice' = UpdateHighest(position, highestPrice, last)
                 /\ pc' = [pc EXCEPT ![h] = "idle"]
                 /\ loc' = [loc EXCEPT ![h] = NoLoc]
                 /\ lastCall' = Call("riskCheck", "denied", "SIGNAL", 0, last, FALSE, FALSE)
                 /\ UNCHANGED << position, entryPrice, dailyStats, sent, orderInProgress >>
            ELSE IF d.result = "sent"
            THEN /\ orderInProgress' = TRUE
                 /\ sent' = sent + 1
                 /\ pc' = [pc EXCEPT ![h] = "buyCreateOrder"]
                 /\ loc' = [loc EXCEPT ![h] = [NoLoc EXCEPT !.buySignal = buySignal,
                                                           !.order = sent + 1,
                                                           !.quantity = d.qty]]
                 /\ lastCall' = Call("buy", "sent", "SIGNAL", d.qty, last, FALSE, FALSE)
                 /\ UNCHANGED botVars
            ELSE /\ orderInProgress' = FlagAfterRejection(orderInProgress, d.result)
                 /\ highestPrice' = UpdateHighest(position, highestPrice, last)
                 /\ pc' = [pc EXCEPT ![h] = "idle"]
                 /\ loc' = [loc EXCEPT ![h] = NoLoc]
                 /\ lastCall' = Call("buy", d.result, "SIGNAL", d.qty, last, FALSE, FALSE)
                 /\ UNCHANGED << position, entryPrice, dailyStats, sent >>
       ELSE /\ highestPrice' = UpdateHighest(position, highestPrice, last)
            /\ pc' = [pc EXCEPT ![h] = "idle"]
            /\ loc' = [loc EXCEPT ![h] = NoLoc]
            /\ lastCall' = NoCall
            /\ UNCHANGED << position, entryPrice, dailyStats, sent, orderInProgress >>

\* Lines 157-162 of processNewPrice with a saveState whose failed write
\* puts the position fields back.
ClearAndSaveRollingBack(h, buySignal, last) ==
    /\ \/ /\ position' = [holding |-> FALSE, amount |-> 0]
          /\ entryPrice' = 0
          /\ highestPrice' = 0
          /\ botState' = StateData([holding |-> FALSE, amount |-> 0], 0, 0, last, dailyStats)
          /\ UNCHANGED << trades, dbFailures >>
       \/ /\ dbFailures < MaxDbFailures
          /\ dbFailures' = dbFailures + 1
          /\ UNCHANGED << position, entryPrice, highestPrice, botState, trades >>
    /\ pc' = [pc EXCEPT ![h] = "sellSaveState"]
    /\ loc' = [loc EXCEPT ![h] = [NoLoc EXCEPT !.buySignal = buySignal]]
    /\ UNCHANGED dailyStats

\* Lines 157-162 of processNewPrice: the position fields are cleared and
\* saveState is called with them; the execution then awaits the write.  Of
\* its signal the execution will only read signal === 'BUY' from here on.
ClearAndSave(h, buySignal, last) ==
    /\ position' = [holding |-> FALSE, amount |-> 0]
    /\ entryPrice' = 0
    /\ highestPrice' = 0
    /\ Upsert(StateData([holding |-> FALSE, amount |-> 0], 0, 0, last, dailyStats))
    /\ pc' = [pc EXCEPT ![h] = "sellSaveState"]
    /\ loc' = [loc EXCEPT ![h] = [NoLoc EXCEPT !.buySignal = buySignal]]
    /\ UNCHANGED dailyStats

\* processNewPrice(kline) from its start to its first await: the price kline.close
\* arrives, SignalProcessor.processPrice returns sig, the exit conditions are
\* checked, and either executeSellOrder or the entry step runs.  h is the
\* first free slot for an execution.
processNewPrice(h, price, sig) ==
    /\ alive /\ pc[h] = "idle"
    /\ UNCHANGED processEnv
    /\ \A g \in Handlers : g < h => pc[g] # "idle"
    /\ sent < MaxOrders
    /\ IF ~isInitialized
       THEN UNCHANGED engineVars
       ELSE /\ lastPrice' = price
            /\ UNCHANGED << envVars, fills, exBase >>
            /\ LET exitAction == checkExitConditions(position, entryPrice, highestPrice, price)
                   d == executeSellOrderPre(orderInProgress, position, price, symbolInfo,
                                            accountBalances.base)
               IN IF exitAction # "NONE"
                  THEN /\ lastCall' = Call("sell", d.result, exitAction, d.qty, price,
                                            FALSE, FALSE)
                       /\ IF d.result = "sent"
                          THEN /\ orderInProgress' = TRUE
                               /\ sent' = sent + 1
                               /\ pc' = [pc EXCEPT ![h] = "sellCreateOrder"]
                               /\ loc' = [loc EXCEPT ![h] =
                                            [NoLoc EXCEPT !.buySignal = (sig = "BUY"),
                                                          !.order = sent + 1,
                                                          !.quantity = d.qty]]
                               /\ UNCHANGED << botVars, dbVars >>
                          ELSE /\ orderInProgress' = FlagAfterRejection(orderInProgress, d.result)
                               /\ ClearAndSave(h, sig = "BUY", price)
                               /\ UNCHANGED sent
                  ELSE /\ EntryStep(h, sig = "BUY", price)
                       /\ UNCHANGED dbVars

\* processNewPrice in the engine on its own, where the signal is an input.
ProcessNewPrice(h, price, sig) ==
    /\ processNewPrice(h, price, sig)
    /\ UNCHANGED componentVars

\* executeSellOrder from the return of createOrder to the await of saveState
\* in processNewPrice.  When the order was executed, line 223 reads
\* this.stateManager.position.entryPrice: a StateManager has no position
\* field, the read throws a TypeError, and the catch block returns null
\* exactly as it does when createOrder itself throws.  processNewPrice does
\* not look at the value executeSellOrder returns.
SellCreateOrderReturn(h) ==
    /\ alive /\ pc[h] = "sellCreateOrder"
    /\ UNCHANGED << componentVars, processEnv >>
    /\ "position" \notin stateManagerFields
    /\ \/ /\ loc[h].quantity <= exBase
          /\ fills' = Append(fills, "SELL")
          /\ exBase' = exBase - loc[h].quantity
          /\ lastCall' = Call("sell", "null", "NONE", loc[h].quantity, lastPrice,
                               TRUE, FALSE)
       \/ /\ lastCall' = Call("sell", "null", "NONE", 0, 0, FALSE, FALSE)
          /\ UNCHANGED << fills, exBase >>
    /\ orderInProgress' = FALSE
    /\ ClearAndSave(h, loc[h].buySignal, lastPrice)
    /\ UNCHANGED << envVars, lastPrice, sent >>

\* processNewPrice resumes after the saveState of the exit branch and goes on
\* to the entry step.
SellSaveStateReturn(h) ==
    /\ alive /\ pc[h] = "sellSaveState"
    /\ UNCHANGED << componentVars, processEnv >>
    /\ EntryStep(h, loc[h].buySignal, lastPrice)
    /\ UNCHANGED << envVars, lastPrice, fills, exBase, dbVars >>

\* executeBuyOrder from the return of createOrder: the exchange answers with
\* the order executed in full at the last price, or with executedQty 0 (a
\* market order that expired unfilled), and the trade is handed to saveTrade
\* (the flag stays set while that write is awaited); or createOrder threw
\* and the call returns null.
BuyCreateOrderReturn(h) ==
    /\ alive /\ pc[h] = "buyCreateOrder"
    /\ UNCHANGED << componentVars, processEnv >>
    /\ LET i == loc[h].order
       IN \/ \E executedQty \in {loc[h].quantity, 0} :
                LET totalQuoteAmount == executedQty * lastPrice
                    avgPrice == IF executedQty = 0 THEN NaN
                                ELSE totalQuoteAmount \div executedQty
                IN /\ fills' = IF executedQty > 0 THEN Append(fills, "BUY") ELSE fills
                   /\ exBase' = exBase + executedQty
                   /\ Create([orderId |-> i, side |-> "BUY"])
                   /\ pc' = [pc EXCEPT ![h] = "buySaveTrade"]
                   /\ loc' = [loc EXCEPT ![h] = [@ EXCEPT !.executedQty = executedQty,
                                                          !.avgPrice = avgPrice,
                                                          !.handed = TRUE]]
                   /\ lastCall' = Call("buy", "saveTrade", "SIGNAL", executedQty,
                                        avgPrice, executedQty > 0, TRUE)
                   /\ UNCHANGED << orderInProgress, highestPrice >>
          \/ /\ orderInProgress' = FALSE
             /\ highestPrice' = UpdateHighest(position, highestPrice, lastPrice)
             /\ pc' = [pc EXCEPT ![h] = "idle"]
             /\ loc' = [loc EXCEPT ![h] = NoLoc]
             /\ lastCall' = Call("buy", "null", "SIGNAL", 0, 0, FALSE, FALSE)
             /\ UNCHANGED << fills, exBase, dbVars >>
    /\ UNCHANGED << envVars, lastPrice, position, entryPrice, dailyStats, sent >>

\* executeBuyOrder returns { executedQty, avgPrice } after saveTrade; the
\* finally block clears the flag; processNewPrice records the position,
\* counts the trade and calls saveState.
BuySaveTradeReturn(h) ==
    /\ alive /\ pc[h] = "buySaveTrade"
    /\ UNCHANGED << componentVars, processEnv >>
    /\ orderInProgress' = FALSE
    /\ position' = [holding |-> TRUE, amount |-> loc[h].executedQty]
    /\ entryPrice' = loc[h].avgPrice
    /\ highestPrice' = loc[h].avgPrice
    /\ dailyStats' = [dailyStats EXCEPT !.trades = @ + 1]
    /\ Upsert(StateData([holding |-> TRUE, amount |-> loc[h].executedQty],
                        loc[h].avgPrice, loc[h].avgPrice, lastPrice,
                        [dailyStats EXCEPT !.trades = @ + 1]))
    /\ pc' = [pc EXCEPT ![h] = "buySaveState"]
    /\ loc' = [loc EXCEPT ![h] = NoLoc]
    /\ lastCall' = Call("buy", "fill", "SIGNAL", loc[h].executedQty, loc[h].avgPrice,
                         TRUE, loc[h].handed)
    /\ UNCHANGED << envVars, lastPrice, exVars >>

\* processNewPrice resumes after the saveState of the entry branch: step 4.
BuySaveStateReturn(h) ==
    /\ alive /\ pc[h] = "buySaveState"
    /\ UNCHANGED << componentVars, processEnv >>
    /\ highestPrice' = UpdateHighest(position, highestPrice, lastPrice)
    /\ pc' = [pc EXCEPT ![h] = "idle"]
    /\ loc' = [loc EXCEPT ![h] = NoLoc]
    /\ lastCall' = NoCall
    /\ UNCHANGED << envVars, lastPrice, position, entryPrice, dailyStats, orderInProgress,
                    exVars, dbVars >>

\* An exception is raised inside the try block of processNewPrice while a
\* price event is processed: the catch block awaits
\* handleCriticalError(error, context), whose shouldExit parameter defaults to
\* true, and handleCriticalError calls process.exit(1).  The memory of the
\* process is gone, and an order request still pending is never executed.
ProcessNewPriceThrows ==
    /\ alive /\ isInitialized
    /\ UNCHANGED << componentVars, processEnv >>
    /\ \E h \in Handlers : pc[h] = "idle"
    /\ alive' = FALSE
    /\ isInitialized' = FALSE
    /\ position' = DefaultPosition
    /\ entryPrice' = 0
    /\ highestPrice' = 0
    /\ lastPrice' = 0
    /\ dailyStats' = DefaultDailyStats
    /\ accountBalances' = NoBalances
    /\ symbolInfo' = NoSymbolInfo
    /\ orderInProgress' = FALSE
    /\ pc' = [g \in Handlers |-> "idle"]
    /\ loc' = [g \in Handlers |-> NoLoc]
    /\ lastCall' = Call("exception", "exit", "NONE", 0, 0, FALSE, FALSE)
    /\ UNCHANGED << exVars, exInfo, dbVars >>

\* The process is started again: `new BinanceTradingBot()`.
Start ==
    /\ ~alive
    /\ UNCHANGED << componentVars, processEnv >>
    /\ alive' = TRUE
    /\ lastCall' = NoCall
    /\ UNCHANGED << isInitialized, position, entryPrice, highestPrice, lastPrice, dailyStats,
                    accountBalances, symbolInfo, orderInProgress, pc, loc, exVars, exInfo,
                    dbVars >>

Next ==
    \/ InitBot
    \/ \E h \in Handlers, price \in Prices, sig \in Signals : ProcessNewPrice(h, price, sig)
    \/ \E h \in Handlers : SellCreateOrderReturn(h)
    \/ \E h \in Handlers : SellSaveStateReturn(h)
    \/ \E h \in Handlers : BuyCreateOrderReturn(h)
    \/ \E h \in Handlers : BuySaveTradeReturn(h)
    \/ \E h \in Handlers : BuySaveStateReturn(h)
    \/ ProcessNewPriceThrows
    \/ Start

Spec == Init /\ [][Next]_vars

\* The executions whose order request is outstanding at the exchange: they
\* are suspended at the await of binanceAPIService.createOrder.
InFlight == {h \in Handlers : pc[h] \in {"buyCreateOrder", "sellCreateOrder"}}

\* The executions inside executeBuyOrder / executeSellOrder, between the
\* assignment orderInProgress = true and the finally block: they are
\* suspended at the await of createOrder or of saveTrade.
ExecutorCalls ==
    {h \in Handlers : pc[h] \in {"buyCreateOrder", "sellCreateOrder", "buySaveTrade"}}

\* The engine on a symbol with a MIN_NOTIONAL filter, where every exit path
\* of the executor exists.
InitReturns == Init /\ exInfo.hasMinNotional

\* That engine when the calls an order awaits return: createOrder answers
\* or throws, and saveTrade returns (it catches its own errors).
SpecReturns ==
    /\ InitReturns /\ [][Next]_vars
    /\ WF_vars(\E h \in Handlers : BuyCreateOrderReturn(h))
    /\ WF_vars(\E h \in Handlers : BuySaveTradeReturn(h))
    /\ WF_vars(\E h \in Handlers : SellCreateOrderReturn(h))

\* ------------------------------------------------ a day near its limits
\* Rows of bot_state that loadState may find when the bot starts during a
\* day that is close to its limits: flat with one trade left, flat with the
\* day's loss at the cap, and holding 0.04 bought at 100 with the day's loss
\* at the cap.  (The code never changes dailyStats.profit itself; a row with
\* a loss is one written to the table by another writer.)
LimitRows ==
    { StateData(DefaultPosition, 0, 0, 100, [trades |-> maxDailyTrades - 1, profit |-> 0]),
      StateData(DefaultPosition, 0, 0, 100, [trades |-> 0, profit |-> -DailyLossCap]),
      StateData([holding |-> TRUE, amount |-> 40000], 100, 100, 100,
                [trades |-> 1, profit |-> -DailyLossCap]) }

InitLimits ==
    /\ Constructed
    /\ processEnv = DefaultEnv
    /\ botState \in LimitRows
    /\ fnCall = NotExercised
    /\ signalProcessor = NotExercised
    /\ stateManager = NotExercised
    /\ legacyBot = NotExercised

SpecLimits == InitLimits /\ [][Next]_vars

\* ------------------------------------------- a restart with a position
\* The bot_state row of a bot that was stopped while it held a position
\* bought at 100: the amount it holds is the free base balance of the
\* account.
HeldRows ==
    { StateData([holding |-> TRUE, amount |-> a], 100, highest, 100, DefaultDailyStats) :
        a \in InitBaseChoices \ {0}, highest \in {100, 101} }

\* A new process of that bot, before init().
InitRestart ==
    /\ Constructed
    /\ processEnv = DefaultEnv
    /\ botState \in HeldRows
    /\ exBase = botState.amount
    /\ fnCall = NotExercised
    /\ signalProcessor = NotExercised
    /\ stateManager = NotExercised
    /\ legacyBot = NotExercised

SpecRestart == InitRestart /\ [][Next]_vars

\* ------------------------------------------------- the store across days
\* dailyStats columns of the bot_state row when the model starts, written on
\* day 0: the day's profit is a loss, nothing or a gain (in USDT).
StoredDailyStats ==
    [trades : {0, 2}, profit : {-3, 0, 5}, startTime : {0}, dailyProfits : {<< >>}]

\* The Trade records handed to saveTrade.
TradeRecords == [orderId : {1, 2}, side : {"BUY", "SELL"}]

NotLoaded == [loaded |-> FALSE]

InitStore ==
    /\ Constructed
    /\ processEnv = DefaultEnv
    /\ exBase = 0
    /\ exInfo.hasMinNotional
    /\ botState = NoState
    /\ fnCall = NotExercised
    /\ signalProcessor = NotExercised
    /\ legacyBot = NotExercised
    /\ \E ds \in StoredDailyStats :
          stateManager = [today |-> 0, row |-> ds, bot |-> NotLoaded,
                          last |-> [op |-> "none"]]

\* The calendar day changes.
Midnight ==
    /\ stateManager.today < MaxDays
    /\ stateManager' = [stateManager EXCEPT !.today = @ + 1, !.last = [op |-> "midnight"]]
    /\ UNCHANGED << engineVars, fnCall, signalProcessor, legacyBot >>

\* A bot process starts and runs StateManager.loadState on the stored row:
\* bot.dailyStats = state.dailyStats, the day block, and on a new day
\* saveState, whose write replaces the row or fails with the error logged.
LoadState ==
    LET ds == stateManager.row
        now == stateManager.today
        loadedStats == loadStateDailyStats(ds, now)
        rolled == now # ds.startTime
    IN /\ \/ /\ stateManager' =
                   [stateManager EXCEPT
                      !.bot = [loaded |-> TRUE, dailyStats |-> loadedStats],
                      !.row = loadedStats,
                      !.last = [op |-> "loadState", rolled |-> rolled, saved |-> rolled,
                                before |-> ds]]
             /\ UNCHANGED dbFailures
          \/ /\ rolled
             /\ dbFailures < MaxDbFailures
             /\ dbFailures' = dbFailures + 1
             /\ stateManager' =
                   [stateManager EXCEPT
                      !.bot = [loaded |-> TRUE, dailyStats |-> loadedStats],
                      !.last = [op |-> "loadState", rolled |-> rolled, saved |-> FALSE,
                                before |-> ds]]
       /\ UNCHANGED << alive, isInitialized, position, entryPrice, highestPrice, lastPrice,
                       dailyStats, accountBalances, symbolInfo, orderInProgress, pc, loc,
                       sent, fills, exBase, exInfo, botState, trades, lastCall,
                       fnCall, signalProcessor, legacyBot, processEnv >>

\* processNewPrice, lines 166-184, in the loaded bot: the daily gate read
\* bot.dailyStats and let the entry pass (the counts and losses of this
\* specification stay below the limits), a buy was executed,
\* dailyStats.trades++ and saveState.
CountTradeAndSave ==
    /\ stateManager.bot.loaded
    /\ stateManager.bot.dailyStats.trades < MaxOrders
    /\ LET counted == [stateManager.bot.dailyStats EXCEPT !.trades = @ + 1]
       IN \/ /\ stateManager' = [stateManager EXCEPT !.bot.dailyStats = counted,
                                                       !.row = counted,
                                                       !.last = [op |-> "saveState"]]
             /\ UNCHANGED dbFailures
          \/ /\ dbFailures < MaxDbFailures
             /\ dbFailures' = dbFailures + 1
             /\ stateManager' = [stateManager EXCEPT !.bot.dailyStats = counted,
                                                       !.last = [op |-> "saveState"]]
    /\ UNCHANGED << alive, isInitialized, position, entryPrice, highestPrice, lastPrice,
                    dailyStats, accountBalances, symbolInfo, orderInProgress, pc, loc,
                    sent, fills, exBase, exInfo, botState, trades, lastCall,
                    fnCall, signalProcessor, legacyBot, processEnv >>

\* StateManager.saveTrade(t) is called and returns.
SaveTrade(t) ==
    /\ Create(t)
    /\ lastCall' = Call("saveTrade", "returned", "NONE", t.orderId, 0, FALSE, TRUE)
    /\ stateManager' = [stateManager EXCEPT !.last = [op |-> "saveTrade", trade |-> t,
                                                       before |-> trades]]
    /\ UNCHANGED << alive, isInitialized, position, entryPrice, highestPrice, lastPrice,
                    dailyStats, accountBalances, symbolInfo, orderInProgress, pc, loc,
                    sent, fills, exBase, exInfo, fnCall, signalProcessor, legacyBot,
                    processEnv >>

NextStore ==
    \/ Midnight
    \/ LoadState
    \/ CountTradeAndSave
    \/ \E t \in TradeRecords : SaveTrade(t)

SpecStore == InitStore /\ [][NextStore]_vars

\* ------------------------------------------- a save followed by a load
\* The numbers of this specification are counted in hundredths of the last
\* decimal digit of a DECIMAL(20, 10) column, that is in 10^-12; their
\* magnitude is kept small, the rounding of the column does not depend on it.
ColumnUnit == 100

\* A Number written to a DECIMAL(20, 10) column and read back by parseFloat:
\* the nearest multiple of 10^-10; NaN is stored and read as NaN.
toDecimal(x) ==
    IF x = NaN THEN NaN
    ELSE ((2 * x + ColumnUnit) \div (2 * ColumnUnit)) * ColumnUnit

\* StateManager.botId
botId == "main_bot_instance"

\* States of the bot in memory: no position; a position of 0.0003 whose
\* entry price has at most ten decimals (700) or more (733, as an average
\* price totalQuoteAmount / executedQty mostly has), with the high at the
\* entry price or at a closing price above it; the position of an order
\* that came back with executedQty 0.
BotStatesInMemory ==
    LET stats == [trades : {0, 2}, profit : {-3, 0}, startTime : {0}]
        positions ==
            { [holding |-> FALSE, amount |-> 0, entryPrice |-> 0, highestPrice |-> 0],
              [holding |-> TRUE, amount |-> 0, entryPrice |-> NaN, highestPrice |-> NaN] }
            \cup [holding : {TRUE}, amount : {3 * ColumnUnit}, entryPrice : {700, 733},
                  highestPrice : {733, 900}]
    IN { [position |-> q, dailyStats |-> ds] : q \in positions, ds \in stats }

\* BotStateModel.upsert({ botId, ...stateData }) without the unique botId:
\* every save inserts a row.
insertRow(table, id, data) ==
    table \cup {[botId |-> id, id |-> Cardinality(table) + 1, data |-> data]}

\* BotStateModel.upsert({ botId, ...stateData }) on the bot_state table, where
\* botId is unique: the row of the bot is updated, or inserted when there is
\* none.
upsertRow(table, id, data) ==
    IF \E r \in table : r.botId = id
    THEN {IF r.botId = id THEN [r EXCEPT !.data = data] ELSE r : r \in table}
    ELSE table \cup {[botId |-> id, id |-> Cardinality(table) + 1, data |-> data]}

\* The stateData of saveState as the columns hold it: amount, entryPrice and
\* highestPrice are DECIMAL(20, 10), holding is BOOLEAN, dailyStats is JSONB.
stateDataOf(st) ==
    [holding |-> st.position.holding,
     amount |-> toDecimal(st.position.amount),
     entryPrice |-> toDecimal(st.position.entryPrice),
     highestPrice |-> toDecimal(st.position.highestPrice),
     dailyStats |-> st.dailyStats]

\* What loadState assigns to the bot from the row it found.
loadedState(data) ==
    [position |-> [holding |-> data.holding, amount |-> data.amount,
                   entryPrice |-> data.entryPrice, highestPrice |-> data.highestPrice],
     dailyStats |-> data.dailyStats]

\* A bot whose first loadState found no row and saved the defaults; table is
\* bot_state, saved the state of the latest save that succeeded.
InitRoundTrip ==
    /\ Constructed
    /\ processEnv = DefaultEnv
    /\ exBase = 0
    /\ exInfo.hasMinNotional
    /\ botState = NoState
    /\ fnCall = NotExercised
    /\ signalProcessor = NotExercised
    /\ legacyBot = NotExercised
    /\ \E st \in BotStatesInMemory :
          /\ ~st.position.holding /\ st.dailyStats.trades = 0
          /\ stateManager = [bot |-> st, table |-> upsertRow({}, botId, stateDataOf(st)),
                             saved |-> st, saves |-> 1, last |-> "saveState"]

\* The bot trades: its state in memory changes.
BotChanges(st) ==
    /\ stateManager.bot # st
    /\ stateManager' = [stateManager EXCEPT !.bot = st, !.last = "change"]
    /\ UNCHANGED << engineVars, fnCall, signalProcessor, legacyBot >>

\* StateManager.saveState(bot): the upsert succeeds, or it fails and the
\* error is logged.
SaveStateOfBot ==
    /\ stateManager.saves < MaxSaves
    /\ \/ stateManager' =
             [stateManager EXCEPT
                !.table = upsertRow(@, botId, stateDataOf(stateManager.bot)),
                !.saved = stateManager.bot, !.saves = @ + 1, !.last = "saveState"]
       \/ stateManager' = [stateManager EXCEPT !.saves = @ + 1, !.last = "saveFailed"]
    /\ UNCHANGED << engineVars, fnCall, signalProcessor, legacyBot >>

\* A new process calls StateManager.loadState(bot) on the day of the save:
\* findOne({ where: { botId } }) and the assignments to the bot.
LoadStateSameDay ==
    /\ \E r \in stateManager.table :
          /\ r.botId = botId
          /\ stateManager' = [stateManager EXCEPT !.bot = loadedState(r.data),
                                                    !.last = "loadState"]
    /\ UNCHANGED << engineVars, fnCall, signalProcessor, legacyBot >>

NextRoundTrip ==
    \/ \E st \in BotStatesInMemory : BotChanges(st)
    \/ SaveStateOfBot
    \/ LoadStateSameDay

SpecRoundTrip == InitRoundTrip /\ [][NextRoundTrip]_vars

\* ----------------------------------------------- the signal processor
\* Closing prices fed to the signal processor.
SignalPrices == {1, 3}

\* config.strategy.shortMASize and longMASize, the short one smaller.
MASizes == { <<1, 2>>, <<1, 3>>, <<2, 3>> }

RECURSIVE SeqsUpTo(_, _)
\* The sequences over S of length at most n.
SeqsUpTo(S, n) ==
    IF n = 0 THEN { << >> }
    ELSE LET shorter == SeqsUpTo(S, n - 1)
         IN shorter \cup { Append(q, x) : q \in {r \in shorter : Len(r) = n - 1}, x \in S }

\* `new SignalProcessor(config, logger)`; observed counts the prices handed
\* to the processor and arrived lists them in the order they came, ticks
\* counts the processPrice calls, and previous is the signal the call before
\* the latest returned.
InitSignal ==
    /\ Constructed
    /\ processEnv = DefaultEnv
    /\ exBase = 0
    /\ exInfo.hasMinNotional
    /\ botState = NoState
    /\ fnCall = NotExercised
    /\ stateManager = NotExercised
    /\ legacyBot = NotExercised
    /\ \E sizes \in MASizes :
          signalProcessor = [shortMASize |-> sizes[1], longMASize |-> sizes[2],
                             prices |-> << >>, shortMA |-> << >>, longMA |-> << >>,
                             signal |-> "NONE", live |-> FALSE, observed |-> 0,
                             ticks |-> 0, above |-> FALSE, previous |-> "NONE",
                             arrived |-> << >>]

\* The short average is above the long one at the latest computed values.
ShortAboveLong(sp) ==
    /\ sp.shortMA # << >> /\ sp.longMA # << >>
    /\ FractionLess(sp.longMA[Len(sp.longMA)], sp.shortMA[Len(sp.shortMA)])

\* BinanceTradingBot.init() hands the historical closing prices to
\* initializeData.
InitializeData(historicalPrices) ==
    /\ ~signalProcessor.live
    /\ signalProcessor' =
          [initializeData(signalProcessor, historicalPrices) EXCEPT
              !.live = TRUE, !.observed = Len(historicalPrices),
              !.arrived = historicalPrices]
    /\ UNCHANGED << engineVars, fnCall, stateManager, legacyBot >>

\* processNewPrice hands a closing price to processPrice; above records
\* whether the short average was above the long one before the call.
ProcessPrice(newPrice) ==
    /\ signalProcessor.live
    /\ signalProcessor.ticks < MaxTicks
    /\ signalProcessor' =
          [processPrice(signalProcessor, newPrice) EXCEPT
              !.observed = @ + 1, !.ticks = @ + 1,
              !.above = ShortAboveLong(signalProcessor),
              !.previous = signalProcessor.signal,
              !.arrived = Append(@, newPrice)]
    /\ UNCHANGED << engineVars, fnCall, stateManager, legacyBot >>

NextSignal ==
    \/ \E historicalPrices \in SeqsUpTo(SignalPrices, MaxHistory) :
          InitializeData(historicalPrices)
    \/ \E newPrice \in SignalPrices : ProcessPrice(newPrice)

SpecSignal == InitSignal /\ [][NextSignal]_vars

\* ------------------------------------------- the engine while it starts
\* Closing prices getHistoricalData returns to init().
StartupHistories == { << 100, 100 >>, << 101, 100 >> }

\* One process from `new BinanceTradingBot()` on: init() has not connected
\* the WebSocket, and ignored counts the lines "Bot não inicializado,
\* ignorando novo preço." in the log.
InitStartup ==
    /\ Constructed
    /\ processEnv = DefaultEnv
    /\ botState = NoState
    /\ fnCall = [fn |-> "init", connected |-> FALSE, ignored |-> 0]
    /\ signalProcessor = [shortMASize |-> 1, longMASize |-> 2,
                          prices |-> << >>, shortMA |-> << >>, longMA |-> << >>,
                          signal |-> "NONE", live |-> FALSE, observed |-> 0,
                          ticks |-> 0, above |-> FALSE, previous |-> "NONE",
                          arrived |-> << >>]
    /\ stateManager = NotExercised
    /\ legacyBot = NotExercised

\* init() from its start to the return of connectWebSocket: the state is
\* loaded, the filters and balances are fetched, the historical prices are
\* handed to the signal processor and the WebSocket delivers from now on.
InitConnects(historicalPrices) ==
    /\ alive /\ ~isInitialized /\ ~fnCall.connected
    /\ InitLoads
    /\ signalProcessor' =
          [initializeData(signalProcessor, historicalPrices) EXCEPT
              !.live = TRUE, !.observed = Len(historicalPrices),
              !.arrived = historicalPrices]
    /\ fnCall' = [fnCall EXCEPT !.connected = TRUE]
    /\ lastCall' = NoCall
    /\ UNCHANGED << alive, isInitialized, orderInProgress, pc, loc, exVars, exInfo,
                    processEnv, stateManager, legacyBot >>

\* init() after the awaits that follow the connection: isInitialized = true.
InitCompletes ==
    /\ alive /\ ~isInitialized /\ fnCall.connected
    /\ isInitialized' = TRUE
    /\ lastCall' = NoCall
    /\ UNCHANGED << alive, botVars, lastPrice, accountBalances, symbolInfo, orderInProgress,
                    pc, loc, exVars, exInfo, dbVars, processEnv, componentVars >>

\* The callback of the WebSocket without the isInitialized test of
\* processNewPrice: every closing price goes to the signal processor.
PriceEventUnguarded(h, price) ==
    /\ fnCall.connected
    /\ signalProcessor.ticks + fnCall.ignored < MaxEvents
    /\ LET sp == processPrice(signalProcessor, price)
       IN /\ signalProcessor' =
                [sp EXCEPT !.observed = @ + 1, !.ticks = @ + 1,
                           !.above = ShortAboveLong(signalProcessor),
                           !.previous = signalProcessor.signal,
                           !.arrived = Append(@, price)]
          /\ processNewPrice(h, price, sp.signal)
          /\ UNCHANGED << fnCall, stateManager, legacyBot >>

\* The WebSocket delivers a closed candle and calls processNewPrice(kline):
\* before isInitialized is set the price is logged as ignored and the call
\* returns; afterwards the price goes to SignalProcessor.processPrice and
\* the signal it returns to the rest of processNewPrice.
PriceEvent(h, price) ==
    /\ fnCall.connected
    /\ signalProcessor.ticks + fnCall.ignored < MaxEvents
    /\ IF ~isInitialized
       THEN /\ processNewPrice(h, price, "NONE")
            /\ fnCall' = [fnCall EXCEPT !.ignored = @ + 1]
            /\ UNCHANGED << signalProcessor, stateManager, legacyBot >>
       ELSE LET sp == processPrice(signalProcessor, price)
            IN /\ signalProcessor' =
                     [sp EXCEPT !.observed = @ + 1, !.ticks = @ + 1,
                                !.above = ShortAboveLong(signalProcessor),
                                !.previous = signalProcessor.signal,
                                !.arrived = Append(@, price)]
               /\ processNewPrice(h, price, sp.signal)
               /\ UNCHANGED << fnCall, stateManager, legacyBot >>

NextStartup ==
    \/ \E historicalPrices \in StartupHistories : InitConnects(historicalPrices)
    \/ InitCompletes
    \/ \E h \in Handlers, price \in Prices : PriceEvent(h, price)
    \/ \E h \in Handlers : SellCreateOrderReturn(h)
    \/ \E h \in Handlers : SellSaveStateReturn(h)
    \/ \E h \in Handlers : BuyCreateOrderReturn(h)
    \/ \E h \in Handlers : BuySaveTradeReturn(h)
    \/ \E h \in Handlers : BuySaveStateReturn(h)

SpecStartup == InitStartup /\ [][NextStartup]_vars

\* ------------------------------------------------------ the legacy bot
\* The default of the retries parameter of authenticatedRequest (bot.js).
retries == 3

\* The legacy bot after its initialization, with no order call running:
\* side is the order call in progress, attempt the pass of the loop of
\* authenticatedRequest, awaiting whether an axios request is outstanding,
\* requests the order requests the running (or latest) call has sent and
\* executed how many of them the exchange executed.
InitLegacy ==
    /\ Constructed
    /\ processEnv \in [SIMULATE_TRADING : BOOLEAN]
    /\ exBase = 0
    /\ exInfo.hasMinNotional
    /\ botState = NoState
    /\ fnCall = NotExercised
    /\ signalProcessor = NotExercised
    /\ stateManager = NotExercised
    /\ \E p \in Prices :
          legacyBot = [lastPrice |-> p, position |-> "null", entryPrice |-> 0,
                       orderInProgress |-> FALSE, side |-> "NONE", attempt |-> 0,
                       awaiting |-> FALSE, requests |-> 0, executed |-> 0,
                       returned |-> "none"]

\* The price handler of the legacy bot stores a new closing price.
LegacyPrice(p) ==
    /\ legacyBot' = [legacyBot EXCEPT !.lastPrice = p]
    /\ UNCHANGED << engineVars, fnCall, signalProcessor, stateManager >>

\* ConfigManager of the legacy bot: development.simulateTrading is
\* process.env.SIMULATE_TRADING === 'true'.
simulateTrading == processEnv.SIMULATE_TRADING

\* buyOrder() / sellOrder() of the legacy bot up to the order itself: the
\* in-flight flag is taken and the checks pass, or the balance is too small
\* and the call returns false.  With simulateTrading the order is only
\* logged, the position is recorded and the call returns true; in live
\* trading the call goes on to authenticatedRequest('POST',
\* '/api/v3/order', ...).
LegacyOrderCall(side) ==
    /\ legacyBot.side = "NONE" /\ ~legacyBot.orderInProgress
    /\ side = IF legacyBot.position = "long" THEN "SELL" ELSE "BUY"
    /\ \/ /\ simulateTrading
          /\ legacyBot' = [legacyBot EXCEPT
                             !.position = IF side = "BUY" THEN "long" ELSE "null",
                             !.entryPrice = IF side = "BUY"
                                               THEN legacyBot.lastPrice ELSE 0,
                             !.requests = 0, !.executed = 0,
                             !.returned = "true"]
       \/ /\ ~simulateTrading
          /\ legacyBot' = [legacyBot EXCEPT !.orderInProgress = TRUE, !.side = side,
                                             !.attempt = 1, !.awaiting = FALSE,
                                             !.requests = 0, !.executed = 0,
                                             !.returned = "none"]
       \/ legacyBot' = [legacyBot EXCEPT !.requests = 0, !.executed = 0,
                                          !.returned = "false"]
    /\ UNCHANGED << engineVars, fnCall, signalProcessor, stateManager >>

\* authenticatedRequest: one pass of the loop sends the order request with
\* axios(config).
LegacySendRequest ==
    /\ legacyBot.side # "NONE" /\ ~legacyBot.awaiting
    /\ legacyBot.attempt <= retries
    /\ legacyBot' = [legacyBot EXCEPT !.awaiting = TRUE, !.requests = @ + 1]
    /\ UNCHANGED << engineVars, fnCall, signalProcessor, stateManager >>

\* The exchange answers the request with the executed order: buyOrder /
\* sellOrder records the position and returns true.
LegacyResponse ==
    /\ legacyBot.awaiting
    /\ legacyBot' = [legacyBot EXCEPT
                       !.awaiting = FALSE, !.executed = @ + 1,
                       !.position = IF legacyBot.side = "BUY" THEN "long" ELSE "null",
                       !.entryPrice = IF legacyBot.side = "BUY"
                                         THEN legacyBot.lastPrice ELSE 0,
                       !.orderInProgress = FALSE, !.side = "NONE", !.attempt = 0,
                       !.returned = "true"]
    /\ UNCHANGED << engineVars, fnCall, signalProcessor, stateManager >>

\* The request fails (a rejection, or a timeout or network error, after
\* which the exchange may have executed the order all the same): the catch
\* block of the loop throws on the last attempt, which makes buyOrder /
\* sellOrder return false, and otherwise sleeps and goes round the loop.
LegacyError(executedAtExchange) ==
    /\ legacyBot.awaiting
    /\ legacyBot' =
          IF legacyBot.attempt = retries
          THEN [legacyBot EXCEPT
                  !.awaiting = FALSE,
                  !.executed = IF executedAtExchange THEN @ + 1 ELSE @,
                  !.orderInProgress = FALSE, !.side = "NONE", !.attempt = 0,
                  !.returned = "false"]
          ELSE [legacyBot EXCEPT
                  !.awaiting = FALSE,
                  !.executed = IF executedAtExchange THEN @ + 1 ELSE @,
                  !.attempt = @ + 1]
    /\ UNCHANGED << engineVars, fnCall, signalProcessor, stateManager >>

NextLegacy ==
    \/ \E p \in Prices : LegacyPrice(p)
    \/ \E side \in {"BUY", "SELL"} : LegacyOrderCall(side)
    \/ LegacySendRequest
    \/ LegacyResponse
    \/ \E executedAtExchange \in BOOLEAN : LegacyError(executedAtExchange)

SpecLegacy == InitLegacy /\ [][NextLegacy]_vars

\* --------------------------------------- the engine with SIMULATE_TRADING
\* The trading engine started with SIMULATE_TRADING=true in its environment,
\* as the README advises for a run without real orders.  Neither the
\* ConfigManager of the engine (config/ConfigManager.js) nor TradeExecutor
\* reads the variable, so the engine takes the same steps.
InitSimulate ==
    /\ Constructed
    /\ processEnv = [SIMULATE_TRADING |-> TRUE]
    /\ botState = NoState
    /\ fnCall = NotExercised
    /\ signalProcessor = NotExercised
    /\ stateManager = NotExercised
    /\ legacyBot = NotExercised

SpecSimulate == InitSimulate /\ [][Next]_vars

\* ------------------------------------------- functions evaluated on their own
\* Configurations of config.strategy: STOP_LOSS_PERCENTAGE as the positive
\* fraction the code documents (2%) or as a negative number (-2%),
\* TAKE_PROFIT_PERCENTAGE 2% (the default) or 20%, TRAILING_STOP_PERCENTAGE 1%
\* or 0.
StrategyConfigs ==
    [stopLossBp : {200, -200}, takeProfitBp : {200, 2000}, trailingStopBp : {0, 100}]

\* Prices in tenths of a USDT: 97.9, 98.0, 98.1, 100.0, 101.9, 102.0, 108.8,
\* 108.9, 109.0, 110.0.
TenthPrices == {979, 980, 981, 1000, 1019, 1020, 1088, 1089, 1090, 1100}

\* The calls checkExitConditions(position, entryPrice, highestPrice,
\* currentPrice) that are evaluated: entry 100.0, highest 100.0 or 110.0.
ExitCalls ==
    [fn : {"checkExitConditions"}, cfg : StrategyConfigs, holding : BOOLEAN,
     entry : {1000}, highest : {1000, 1100}, price : TenthPrices,
     done : {FALSE}, result : {"NONE"}]

\* LOT_SIZE step sizes in quantity units: 0.000001, 0.00001, 0.001, 0.1.
StepSizes == {1, 10, 1000, 100000}

\* Quantities in quantity units: 0, 0.000004, 0.000006, 0.000019, 0.0009,
\* 0.001, 0.3, 1.23456.
FilterValues == {0, 4, 6, 19, 900, 1000, 300000, 1234560}

\* The calls applyExchangeFilter('LOT_SIZE', value) that are evaluated.
FilterCalls ==
    [fn : {"applyExchangeFilter"}, stepSize : StepSizes, value : FilterValues,
     done : {FALSE}, result : {0}]

\* Position amounts and free base balances in quantity units: 0.000004,
\* 0.000006, 0.00002, 0.0009, 0.001, 0.04.
SellAmounts == {20, 1000, 40000}
SellBalances == {0, 4, 6, 20, 900, 1000, 40000}

\* The calls executeSellOrder(position, currentPrice, symbolInfo,
\* availableBaseBalance, reason) that are evaluated up to createOrder, the
\* flag being free and the symbol having a LOT_SIZE filter only.
SellCalls ==
    [fn : {"executeSellOrder"}, stepSize : {1, 10, 1000}, amount : SellAmounts,
     baseFree : SellBalances, done : {FALSE}, result : {"none"}, qty : {0},
     flag : {FALSE}]

\* The calls executeBuyOrder(symbol, investmentAmountUsdt, currentPrice,
\* symbolInfo, availableQuoteBalance) that are evaluated up to createOrder,
\* the flag being free: the step size is 0.00001 or 1, the symbol has a
\* MIN_NOTIONAL filter or none, and the quote balance covers the investment
\* or not.
BuyCalls ==
    [fn : {"executeBuyOrder"}, stepSize : {10, QtyScale}, hasMinNotional : BOOLEAN,
     price : Prices, quoteFree : {0, InitQuote}, done : {FALSE}, result : {"none"},
     qty : {0}, flag : {FALSE}]

InitFn ==
    /\ Constructed
    /\ processEnv = DefaultEnv
    /\ exBase = 0
    /\ exInfo.hasMinNotional
    /\ botState = NoState
    /\ fnCall \in ExitCalls \cup FilterCalls \cup SellCalls \cup BuyCalls
    /\ signalProcessor = NotExercised
    /\ stateManager = NotExercised
    /\ legacyBot = NotExercised

\* riskManager.checkExitConditions(...) is called and returns.
CheckExitConditions ==
    /\ fnCall.fn = "checkExitConditions" /\ ~fnCall.done
    /\ fnCall' = [fnCall EXCEPT
                    !.done = TRUE,
                    !.result = checkExitConditionsOf(
                                  fnCall.cfg, [holding |-> fnCall.holding, amount |-> 0],
                                  fnCall.entry, fnCall.highest, fnCall.price)]
    /\ UNCHANGED << engineVars, signalProcessor, stateManager, legacyBot >>

\* tradeExecutor.applyExchangeFilter('LOT_SIZE', value) is called and returns.
ApplyExchangeFilter ==
    /\ fnCall.fn = "applyExchangeFilter" /\ ~fnCall.done
    /\ fnCall' = [fnCall EXCEPT
                    !.done = TRUE,
                    !.result = applyExchangeFilter(
                                  [NoSymbolInfo EXCEPT !.stepSize = fnCall.stepSize],
                                  fnCall.value, 1)]
    /\ UNCHANGED << engineVars, signalProcessor, stateManager, legacyBot >>

\* tradeExecutor.executeSellOrder(...) is called with the flag free and runs
\* to its createOrder call or to the return of a rejection.
ExecuteSellOrder ==
    /\ fnCall.fn = "executeSellOrder" /\ ~fnCall.done
    /\ LET d == executeSellOrderPre(
                    FALSE, [holding |-> TRUE, amount |-> fnCall.amount], 100,
                    [NoSymbolInfo EXCEPT !.stepSize = fnCall.stepSize],
                    fnCall.baseFree)
       IN fnCall' = [fnCall EXCEPT
                       !.done = TRUE, !.result = d.result, !.qty = d.qty,
                       !.flag = IF d.result = "sent" THEN TRUE
                                ELSE FlagAfterRejection(TRUE, d.result)]
    /\ UNCHANGED << engineVars, signalProcessor, stateManager, legacyBot >>

\* tradeExecutor.executeBuyOrder(...) is called with the flag free and runs
\* to its createOrder call or to the return of a rejection.
ExecuteBuyOrder ==
    /\ fnCall.fn = "executeBuyOrder" /\ ~fnCall.done
    /\ LET d == executeBuyOrderPre(
                    FALSE, investmentAmount, fnCall.price,
                    [stepSize |-> fnCall.stepSize,
                     hasMinNotional |-> fnCall.hasMinNotional,
                     minNotional |-> IF fnCall.hasMinNotional THEN 10 ELSE 0],
                    fnCall.quoteFree)
       IN fnCall' = [fnCall EXCEPT
                       !.done = TRUE, !.result = d.result, !.qty = d.qty,
                       !.flag = IF d.result = "sent" THEN TRUE
                                ELSE FlagAfterRejection(TRUE, d.result)]
    /\ UNCHANGED << engineVars, signalProcessor, stateManager, legacyBot >>

NextFn ==
    \/ CheckExitConditions
    \/ ApplyExchangeFilter
    \/ ExecuteSellOrder
    \/ ExecuteBuyOrder

SpecFn == InitFn /\ [][NextFn]_vars

\* ================================================================ properties

\* C1: at most one order request is outstanding at the exchange at any time,
\* and an executeBuyOrder / executeSellOrder call that starts while the
\* in-flight flag is held is rejected as busy at once: it sends nothing to
\* the exchange, joins no queue of outstanding requests, and leaves the flag
\* to the call that holds it.
C1_SingleFlight ==
    [][ /\ Cardinality(InFlight') <= 1
        /\ (orderInProgress /\ lastCall'.result \in PreResults)
              => /\ lastCall'.result = "busy"
                 /\ sent' = sent
                 /\ InFlight' = InFlight
                 /\ orderInProgress' ]_vars

\* A call was rejected as busy while another call's request is outstanding.
C1_Witness ==
    /\ lastCall.result = "busy"
    /\ orderInProgress
    /\ Cardinality(InFlight) = 1

\* C2: when an executeSellOrder call ends without a confirmed fill (it is
\* rejected as busy, for minimum notional or for zero quantity, or it returns
\* null after the exchange request), the orchestrator leaves holding, amount,
\* entryPrice and highestPrice as they were.
C2_PositionKeptOnFailedSell ==
    [][ (lastCall'.fn = "sell" /\ lastCall'.result \in {"busy", "minNotional", "zeroQty", "null"})
          => /\ position' = position
             /\ entryPrice' = entryPrice
             /\ highestPrice' = highestPrice ]_vars

\* C3: the orders the exchange executed alternate BUY, SELL, BUY, ...
C3_FillsAlternate ==
    \A i \in 1..Len(fills) : fills[i] = IF i % 2 = 1 THEN "BUY" ELSE "SELL"

\* C4: an exception raised while a price event is processed is caught and
\* logged, and the engine keeps running to process the next price event.
C4_EngineSurvivesException ==
    lastCall.fn = "exception" => alive

\* C5: every executeBuyOrder / executeSellOrder call whose order the exchange
\* executed has handed a Trade record to StateManager.saveTrade by the time
\* it returns, and it returns a fill, not null.
C5_FillRecordedAndReturned ==
    (lastCall.executed /\ lastCall.result \in {"fill", "null"})
        => (lastCall.handed /\ lastCall.result = "fill")

\* C6: when a call whose order was executed returns, dailyStats.trades grows
\* by exactly 1 for a buy and for a sell alike, and dailyStats.profit grows
\* by (avgFillPrice - entryPrice) * executedQty for a sell and stays as it is
\* for a buy.
C6_StatsPerFill ==
    [][ \A h \in Handlers :
          (pc[h] \in {"sellCreateOrder", "buySaveTrade"} /\ pc'[h] # pc[h] /\ lastCall'.executed)
            => /\ dailyStats'.trades = dailyStats.trades + 1
               /\ dailyStats'.profit = dailyStats.profit +
                     (IF lastCall'.fn = "sell"
                         THEN (lastCall'.price - entryPrice) * lastCall'.qty
                         ELSE 0) ]_vars

\* C7: whenever position.holding is false, position.amount, entryPrice and
\* highestPrice are all 0.
C7_FlatPositionIsZero ==
    ~position.holding => (position.amount = 0 /\ entryPrice = 0 /\ highestPrice = 0)

\* The position was opened, has seen a price above its entry and was closed
\* again; the exit branch has run and the execution has gone on to step 4.
C7_Witness ==
    /\ ~position.holding
    /\ Len(fills) > 0
    /\ lastPrice > 0
    /\ \E h \in Handlers : pc[h] = "sellSaveState"

C9_NoOrderBelowMinNotional ==
    lastCall.result = "sent" => ~BelowMinNotional(symbolInfo, lastCall.qty, lastCall.price)

\* C10: a price event on which an exit was triggered does not go on to
\* attempt an entry: after the exit branch, no executeBuyOrder call is made
\* by the same processNewPrice execution.
C10_NoEntryAfterExit ==
    [][ \A h \in Handlers :
          (pc[h] = "sellSaveState" /\ pc'[h] # "sellSaveState" /\ alive')
            => lastCall'.fn # "buy" ]_vars

C17_FloorToStep ==
    ( fnCall.fn = "applyExchangeFilter" /\ fnCall.done )
      => /\ fnCall.result % fnCall.stepSize = 0
         /\ fnCall.result <= fnCall.value
         /\ fnCall.value < fnCall.result + fnCall.stepSize

C14_ExitNotGatedByDailyLimits ==
    [][ LET priceEvent == /\ alive /\ isInitialized /\ alive'
                          /\ \A h \in Handlers : pc[h] # "idle" => pc'[h] = pc[h]
            exitAction == checkExitConditionsOf(
                              [stopLossBp |-> StopLossBp, takeProfitBp |-> TakeProfitBp,
                               trailingStopBp |-> TrailingStopBp],
                              position, entryPrice, highestPrice, lastPrice')
        IN (priceEvent /\ position.holding /\ exitAction # "NONE")
              => (lastCall'.fn = "sell" /\ lastCall'.reason = exitAction) ]_vars

\* executeSellOrder was called for an exit while the day's loss or trade
\* count was at its limit.
C14_Witness ==
    /\ lastCall.fn = "sell" /\ lastCall.reason \in {"STOP_LOSS", "TAKE_PROFIT", "TRAILING_STOP"}
    /\ ~checkDailyRiskLimits(dailyStats)

C16_DuplicateTradeDiscarded ==
    [][ stateManager'.last.op = "saveTrade"
          => LET t == stateManager'.last.trade
             IN /\ (\E u \in trades : u.orderId = t.orderId)
                      => (trades' = trades /\ lastCall'.result = "returned")
                /\ Cardinality({u \in trades' : u.orderId = t.orderId}) <= 1 ]_vars

\* saveTrade has returned from a record whose order id was stored with
\* another side: the stored record is still the only one of that id.
C16_Witness ==
    /\ stateManager.last.op = "saveTrade"
    /\ stateManager.last.trade \notin trades
    /\ \E u \in trades : u.orderId = stateManager.last.trade.orderId
    /\ stateManager.last.before = trades
    /\ lastCall.result = "returned"

\* C18: with shortMASize < longMASize, a processPrice call made when fewer
\* than longMASize prices have been handed to the processor, historical and
\* live ones together, returns no signal.
C18_NoSignalBeforeLongPeriod ==
    ( /\ signalProcessor.ticks > 0
      /\ signalProcessor.observed < signalProcessor.longMASize )
      => signalProcessor.signal = "NONE"

\* processPrice has been called on the second of two observed prices with
\* longMASize 3, and has returned no signal.
C18_Witness ==
    /\ signalProcessor.ticks > 0
    /\ signalProcessor.observed = 2
    /\ signalProcessor.longMASize = 3
    /\ signalProcessor.signal = "NONE"

\* C19: processPrice returns BUY exactly when the averages before the call's
\* own were short <= long and the call's are short > long, SELL exactly when
\* they were short >= long and are short < long, and NONE otherwise; so a
\* call that finds the short average already above the long one never
\* returns BUY: after the BUY of an upward crossing there is no further BUY
\* while the short average stays above the long one.
C19_SignalOnCrossingOnly ==
    signalProcessor.ticks > 0
      => LET sp == signalProcessor
             two == Len(sp.shortMA) >= 2 /\ Len(sp.longMA) >= 2
             curShort == sp.shortMA[Len(sp.shortMA)]
             prevShort == sp.shortMA[Len(sp.shortMA) - 1]
             curLong == sp.longMA[Len(sp.longMA)]
             prevLong == sp.longMA[Len(sp.longMA) - 1]
             up == /\ two
                   /\ prevShort.num * prevLong.den <= prevLong.num * prevShort.den
                   /\ curShort.num * curLong.den > curLong.num * curShort.den
             down == /\ two
                     /\ prevShort.num * prevLong.den >= prevLong.num * prevShort.den
                     /\ curShort.num * curLong.den < curLong.num * curShort.den
         IN /\ sp.signal = "BUY" <=> up
            /\ sp.signal = "SELL" <=> down
            /\ sp.signal = "NONE" <=> (~up /\ ~down)
            /\ sp.above => sp.signal # "BUY"

\* The tick after a BUY: the short average was above the long one before
\* the call and still is, and the call returned no signal.
C19_Witness ==
    /\ signalProcessor.ticks > 1
    /\ signalProcessor.previous = "BUY"
    /\ signalProcessor.above
    /\ ShortAboveLong(signalProcessor)
    /\ signalProcessor.signal = "NONE"

\* C20: an order call never resubmits a failed order request: each call of
\* buyOrder / sellOrder of the legacy bot sends at most one order request to
\* the exchange.
C20_AtMostOneOrderRequest ==
    legacyBot.requests <= 1

\* C21: with SIMULATE_TRADING set to true no order request is sent, neither
\* by buyOrder / sellOrder of the legacy bot nor by executeBuyOrder /
\* executeSellOrder of TradeExecutor.
C21_NoOrderRequestWhenSimulating ==
    simulateTrading =>
        /\ sent = 0
        /\ legacyBot # NotExercised => legacyBot.requests = 0

\* C22: the in-flight flag is cleared on every exit path of executeBuyOrder
\* and executeSellOrder: the flag is set only while a call that set it is
\* suspended inside the executor, and, the awaited exchange and store calls
\* returning, a set flag is eventually released.
C22_FlagReleased ==
    /\ [](orderInProgress => ExecutorCalls # {})
    /\ (orderInProgress ~> ~orderInProgress)

\* A call that set the flag has returned a fill after a rejected one, and
\* the flag is clear.
C22_Witness ==
    /\ lastCall.fn = "buy" /\ lastCall.result = "fill"
    /\ ~orderInProgress
    /\ ExecutorCalls = {}

\* C23: price events are processed one at a time: two executions of
\* processNewPrice never interleave, so at most one of them is suspended
\* at an await at any moment.
C23_OneExecutionAtATime ==
    Cardinality({h \in Handlers : pc[h] # "idle"}) <= 1

\* C24: within one price event, while a position is held, highestPrice is
\* raised to the current price before the exit conditions are evaluated:
\* the highestPrice that checkExitConditions is given is never below the
\* price of the event.
C24_ExitSeesRaisedHighest ==
    [][(/\ isInitialized /\ position.holding
        /\ \E h \in Handlers, price \in Prices, sig \in Signals :
              ProcessNewPrice(h, price, sig))
       => highestPrice >= lastPrice']_vars

\* C25: whenever the daily gate is evaluated, the trade count and profit it
\* reads cover the current calendar day only: in a process that runs across
\* a day boundary the counters have been reset before an entry of the new
\* day is decided and counted.
C25_GateSeesCurrentDay ==
    [][CountTradeAndSave
          => stateManager.bot.dailyStats.startTime = stateManager.today]_vars

\* C26: state is written through: once an event has been handled, no
\* execution being suspended and no save having failed, the persisted
\* position, entryPrice, highestPrice and daily trades and profit equal the
\* ones in memory.
C26_WriteThrough ==
    (/\ alive /\ isInitialized
     /\ \A h \in Handlers : pc[h] = "idle"
     /\ dbFailures = 0)
    => /\ botState.exists
       /\ botState.holding = position.holding
       /\ botState.amount = position.amount
       /\ botState.entryPrice = entryPrice
       /\ botState.highestPrice = highestPrice
       /\ botState.dailyStats = dailyStats

\* C27: exit evaluation tests STOP_LOSS, then TAKE_PROFIT, then
\* TRAILING_STOP, and the first that holds wins: the result is NONE when no
\* position is held, a stop-loss condition yields STOP_LOSS and a
\* take-profit condition without it TAKE_PROFIT whether or not the trailing
\* condition holds too, and TRAILING_STOP is returned only when the trailing
\* condition holds alone.
C27_FirstMatchWins ==
    (fnCall # NotExercised /\ fnCall.fn = "checkExitConditions" /\ fnCall.done) =>
        LET pnl == (fnCall.price - fnCall.entry) * 10000
            stopLoss == pnl <= -(fnCall.cfg.stopLossBp * fnCall.entry)
            takeProfit == pnl >= fnCall.cfg.takeProfitBp * fnCall.entry
            trailing == /\ fnCall.highest > fnCall.entry
                        /\ fnCall.price * 10000
                              <= fnCall.highest * (10000 - fnCall.cfg.trailingStopBp)
        IN /\ fnCall.result \in {"STOP_LOSS", "TAKE_PROFIT", "TRAILING_STOP", "NONE"}
           /\ ~fnCall.holding => fnCall.result = "NONE"
           /\ fnCall.holding =>
                 /\ stopLoss => fnCall.result = "STOP_LOSS"
                 /\ (takeProfit /\ ~stopLoss) => fnCall.result = "TAKE_PROFIT"
                 /\ (trailing /\ (stopLoss \/ takeProfit))
                       => fnCall.result \in {"STOP_LOSS", "TAKE_PROFIT"}
                 /\ fnCall.result = "TRAILING_STOP"
                       <=> (trailing /\ ~stopLoss /\ ~takeProfit)
                 /\ fnCall.result = "NONE"
                       <=> (~trailing /\ ~stopLoss /\ ~takeProfit)

\* A position bought at 100.0 with high 110.0 and stop loss 2%: at 97.9 the
\* trailing condition and the stop-loss condition both hold and the call
\* has returned STOP_LOSS.
C27_Witness ==
    /\ fnCall # NotExercised /\ fnCall.fn = "checkExitConditions" /\ fnCall.done
    /\ fnCall.holding /\ fnCall.cfg.stopLossBp = 200
    /\ fnCall.highest = 1100 /\ fnCall.price = 979
    /\ fnCall.result = "STOP_LOSS"

\* C28: in executeSellOrder, when the free base balance is less than the
\* position amount quantized to the step, the quantity submitted is the
\* free balance floored to the step size, and when that is zero no order is
\* sent, the flag is released and the call is rejected.
C28_SellsFlooredBalance ==
    (fnCall.fn = "executeSellOrder" /\ fnCall.done) =>
        LET step == fnCall.stepSize
            quantized == (fnCall.amount \div step) * step
            floored == (fnCall.baseFree \div step) * step
        IN quantized > fnCall.baseFree =>
              IF floored = 0
              THEN fnCall.result = "zeroQty" /\ fnCall.qty = 0 /\ ~fnCall.flag
              ELSE fnCall.result = "sent" /\ fnCall.qty = floored

\* C29: the EMA of a period is seeded with the simple average of the first
\* `period` prices of the buffer and the recursion is applied only to the
\* prices after that seed window: the latest value of each average equals
\* that computation over the retained prices.
C29_EmaSeededFromFirstWindow ==
    LET sp == signalProcessor
        seeded(period) ==
            EmaLoop(sp.prices, period, period + 1,
                    Fraction(SumSeq(SubSeq(sp.prices, 1, period)), period))
        same(a, b) == a.num * b.den = b.num * a.den
    IN (sp # NotExercised /\ sp.live /\ sp.longMA # << >>) =>
          /\ same(sp.shortMA[Len(sp.shortMA)], seeded(sp.shortMASize))
          /\ same(sp.longMA[Len(sp.longMA)], seeded(sp.longMASize))

\* C30: after initializeData and after every processPrice the retained
\* prices are at most 2 * longMASize, in arrival order, and what was evicted
\* is always the oldest: the buffer is the latest 2 * longMASize of the
\* prices that arrived.
C30_BufferIsLatestWindow ==
    LET sp == signalProcessor
    IN (sp # NotExercised /\ sp.live) =>
          /\ Len(sp.prices) <= 2 * sp.longMASize
          /\ sp.prices = LastN(sp.arrived, 2 * sp.longMASize)

\* A full buffer has received a further price through processPrice and the
\* oldest price has been evicted.
C30_Witness ==
    /\ signalProcessor # NotExercised /\ signalProcessor.live
    /\ signalProcessor.ticks >= 1
    /\ Len(signalProcessor.arrived) > 2 * signalProcessor.longMASize
    /\ Len(signalProcessor.prices) = 2 * signalProcessor.longMASize
    /\ signalProcessor.arrived[1] # signalProcessor.prices[1]

\* C31: while a position is held within a session highestPrice never
\* decreases from one step to the next and is never below entryPrice, so the
\* trailing-stop threshold never falls.
C31_HighestNeverFalls ==
    [][position'.holding =>
          /\ highestPrice' # NaN /\ entryPrice' # NaN
          /\ highestPrice' >= entryPrice'
          /\ position.holding => (highestPrice # NaN /\ highestPrice' >= highestPrice)]_vars

\* C32: a failed write of saveState raises nothing to processNewPrice and
\* leaves the memory as processNewPrice set it: the process stays alive and
\* initialized, the execution goes on to await the return of saveState, and
\* position, entryPrice, highestPrice and dailyStats hold the values handed
\* to saveState, not those of the row.
C32_SaveFailureSwallowed ==
    [][\A h \in Handlers :
          (/\ dbFailures' > dbFailures
           /\ pc'[h] # pc[h]
           /\ pc'[h] \in {"sellSaveState", "buySaveState"})
          => /\ alive' /\ isInitialized'
             /\ lastCall'.fn # "exception"
             /\ botState' = botState
             /\ pc'[h] = "sellSaveState"
                   => /\ position' = [holding |-> FALSE, amount |-> 0]
                      /\ entryPrice' = 0 /\ highestPrice' = 0
                      /\ dailyStats' = dailyStats
             /\ pc'[h] = "buySaveState"
                   => /\ position' = [holding |-> TRUE, amount |-> loc[h].executedQty]
                      /\ entryPrice' = loc[h].avgPrice
                      /\ highestPrice' = loc[h].avgPrice
                      /\ dailyStats' = [dailyStats EXCEPT !.trades = @ + 1]]_vars

\* The saveState after a buy failed, so that the row still shows no
\* position, and a later price event has sent the sell order of an exit.
C32_Witness ==
    /\ dbFailures >= 1
    /\ botState.exists /\ ~botState.holding
    /\ position.holding
    /\ lastCall.fn = "sell" /\ lastCall.result = "sent"
    /\ \A h \in Handlers : pc[h] \in {"idle", "sellCreateOrder"}

C34_BusyRejectionKeepsFlag ==
    [][ /\ lastCall'.result = "busy"
            => (orderInProgress /\ orderInProgress' /\ ExecutorCalls' = ExecutorCalls)
        /\ (orderInProgress /\ ~orderInProgress')
            => \E h \in ExecutorCalls : h \notin ExecutorCalls'
        /\ (orderInProgress /\ lastCall'.fn \in {"buy", "sell"}
                            /\ lastCall'.result \in PreResults)
            => lastCall'.result = "busy" ]_vars

\* A sell is outstanding at the exchange; a second sell was rejected as busy
\* (its caller cleared the position), and now a buy is rejected as busy too.
C34_Witness ==
    /\ lastCall.fn = "buy" /\ lastCall.result = "busy"
    /\ orderInProgress
    /\ ~position.holding
    /\ \E h \in Handlers : pc[h] = "sellCreateOrder"

\* C35: in every reachable state a held position has an amount above zero
\* and an entry price that is a finite number above zero, whatever quantity
\* the exchange reports as executed.
C35_HeldPositionIsReal ==
    position.holding =>
        /\ position.amount > 0
        /\ entryPrice # NaN
        /\ entryPrice > 0

\* C36: no order with quantity 0 is sent to the exchange: a call of
\* executeBuyOrder or executeSellOrder that reaches createOrder requests a
\* quantity above zero, with or without a MIN_NOTIONAL filter.
C36_NoZeroQuantityOrder ==
    ( fnCall.fn \in {"executeBuyOrder", "executeSellOrder"}
      /\ fnCall.done /\ fnCall.result = "sent" )
        => fnCall.qty > 0

\* C37: the free base balance handed to executeSellOrder reflects the bot's
\* own fills: an exit attempt on a position the bot holds is given an
\* available base balance of at least the amount of the position.
C37_SellSeesOwnFills ==
    [][ (lastCall'.fn = "sell" /\ lastCall'.result \in PreResults)
          => accountBalances.base >= position.amount ]_vars

\* C38: for every held position, price and trailing stop percentage from 0
\* up to 1, checkExitConditions returns the same reason whether highestPrice
\* is raised to the current price before the check or, as the code does,
\* only after it.
C38_UpdateOrderIrrelevant ==
    ( fnCall.fn = "checkExitConditions" /\ fnCall.done
      /\ fnCall.holding
      /\ fnCall.cfg.trailingStopBp >= 0 /\ fnCall.cfg.trailingStopBp < 10000 )
        => fnCall.result =
             checkExitConditionsOf(
                fnCall.cfg, [holding |-> TRUE, amount |-> 0], fnCall.entry,
                UpdateHighest([holding |-> TRUE, amount |-> 0], fnCall.highest, fnCall.price),
                fnCall.price)

\* C38 as amended: the same for a trailing stop percentage above 0.
C38_UpdateOrderIrrelevantAboveZero ==
    ( fnCall.fn = "checkExitConditions" /\ fnCall.done
      /\ fnCall.holding
      /\ fnCall.cfg.trailingStopBp > 0 /\ fnCall.cfg.trailingStopBp < 10000 )
        => fnCall.result =
             checkExitConditionsOf(
                fnCall.cfg, [holding |-> TRUE, amount |-> 0], fnCall.entry,
                UpdateHighest([holding |-> TRUE, amount |-> 0], fnCall.highest, fnCall.price),
                fnCall.price)

\* The exit conditions were checked at a price above the highest price seen
\* that is no take profit, with a trailing stop above 0: no exit.
C38_Witness ==
    /\ fnCall.fn = "checkExitConditions" /\ fnCall.done
    /\ fnCall.holding
    /\ fnCall.cfg.trailingStopBp > 0
    /\ fnCall.price > fnCall.highest
    /\ fnCall.highest >= fnCall.entry
    /\ fnCall.result = "NONE"

\* C39: a SELL crossover signal causes no order and no position change:
\* every executeSellOrder call carries the reason STOP_LOSS, TAKE_PROFIT or
\* TRAILING_STOP, and a price event with a SELL signal, on no position or on
\* a held position that meets none of the three exit conditions, sends no
\* order and leaves the position, the entry price and the exchange account
\* as they are.
C39_SellSignalIgnored ==
    [][ /\ lastCall'.fn = "sell"
            => lastCall'.reason \in {"STOP_LOSS", "TAKE_PROFIT", "TRAILING_STOP", "NONE"}
        /\ (lastCall'.fn = "sell" /\ lastCall'.result \in PreResults)
            => lastCall'.reason \in {"STOP_LOSS", "TAKE_PROFIT", "TRAILING_STOP"}
        /\ \A price \in Prices :
             ( /\ isInitialized
               /\ \/ ~position.holding
                  \/ entryPrice = NaN
                  \/ /\ (price - entryPrice) * 10000 > -(StopLossBp * entryPrice)
                     /\ (price - entryPrice) * 10000 < TakeProfitBp * entryPrice
                     /\ ~( /\ price * 10000 <= highestPrice * (10000 - TrailingStopBp)
                           /\ highestPrice > entryPrice )
               /\ \E h \in Handlers : ProcessNewPrice(h, price, "SELL") )
             => /\ position' = position
                /\ entryPrice' = entryPrice
                /\ sent' = sent
                /\ fills' = fills
                /\ exBase' = exBase
                /\ lastCall'.fn # "sell" ]_vars

\* A price event was processed while a position bought by the bot was held
\* and no exit condition was met: the high was raised above the entry
\* price, no sell order was sent and the position is still held.
C39_Witness ==
    /\ position.holding /\ position.amount > 0
    /\ entryPrice # NaN
    /\ highestPrice > entryPrice
    /\ lastCall = NoCall
    /\ sent = 1
    /\ fills = << "BUY" >>

\* C40: a price event delivered before init() has set isInitialized is
\* ignored: it is logged, and it changes neither the price buffer and the
\* averages of the signal processor, nor the position, the entry and highest
\* price, the last price and the daily statistics, and it sends no order.
C40_EventBeforeInitIgnored ==
    [][ (~isInitialized /\ \E h \in Handlers, price \in Prices : PriceEvent(h, price))
          => /\ signalProcessor' = signalProcessor
             /\ position' = position
             /\ entryPrice' = entryPrice
             /\ highestPrice' = highestPrice
             /\ lastPrice' = lastPrice
             /\ dailyStats' = dailyStats
             /\ sent' = sent
             /\ orderInProgress' = orderInProgress
             /\ botState' = botState
             /\ fnCall'.ignored = fnCall.ignored + 1 ]_vars

\* A price event was ignored while init() was still running, and after
\* init() a later event went through the signal processor.
C40_Witness ==
    /\ fnCall.fn = "init" /\ fnCall.ignored >= 1
    /\ isInitialized
    /\ signalProcessor.ticks >= 1
    /\ signalProcessor.observed = 2 + signalProcessor.ticks

====
